---- MODULE Spec2Model ----
(***************************************************************************)
(* Model of the buffer pool manager of skibidb                             *)
(* (src/src/storage/file_manager.rs): FileManager, its buffer_pool of      *)
(* Pages, the backing file, and the operations read_page,                  *)
(* write_page_to_pool, allocate_page, pin_page, unpin_page, flush_page,    *)
(* flush_all_pages, evict_page and Drop followed by FileManager::new on    *)
(* the same file.                                                          *)
(*                                                                         *)
(* Every file I/O call (seek, read_exact, write_all, sync_all) may fail:   *)
(* a failure is a nondeterministic choice of the environment.  A failing   *)
(* write_all may have written any proper prefix of the buffer.             *)
(***************************************************************************)
EXTENDS Integers, Sequences, FiniteSets, TLC

\* ------------------------------------------------------------------ bounds
\* Largest page id a caller passes (page ids are u64 in the source).
MaxPage == 2
\* Largest pin count reached (pin_count is a u16 in the source).
MaxPin == 1
\* Largest byte value stored in a page (bytes are u8 in the source).
MaxByte == 1

\* ------------------------------------------------- construction parameters
\* FileManager.page_size, the second argument of FileManager::new.
page_size == 1
\* FileManager.max_pages_in_pool, the third argument of FileManager::new.
max_pages_in_pool == 2

PageIds == 0..MaxPage
Byte == 0..MaxByte

VARIABLES
    buffer_pool,   \* FileManager.buffer_pool: page id -> Page, a partial map
    file,          \* the content of the backing file, a sequence of bytes
    num_pages,     \* FileManager.num_pages
    ret,           \* the call that returned last and its result
    allocated,     \* the ids allocate_page returned on this manager (history)
    written,       \* page id -> bytes of the last accepted write (history)
    io_failed      \* some I/O call has been made to fail so far (history)

vars == <<buffer_pool, file, num_pages, ret, allocated, written, io_failed>>

\* ------------------------------------------------------------ Page, pool
\* struct Page { data, dirty, pin_count }
Page(data, dirty, pin_count) ==
    [data |-> data, dirty |-> dirty, pin_count |-> pin_count]

\* vec![0; self.page_size]
Zeros == [i \in 1..page_size |-> 0]

\* The buffers of exactly page_size bytes.
PageData == [1..page_size -> Byte]

\* HashMap::new()
EmptyPool == [q \in {} |-> Page(Zeros, FALSE, 0)]

\* HashMap::insert
Insert(pool, p, page) ==
    [q \in (DOMAIN pool) \cup {p} |-> IF q = p THEN page ELSE pool[q]]

\* HashMap::remove
Remove(pool, p) == [q \in (DOMAIN pool) \ {p} |-> pool[q]]

\* ------------------------------------------------------------- the file
Max(a, b) == IF a >= b THEN a ELSE b

\* seek(SeekFrom::Start(off)) followed by a write of `bytes`: the bytes land
\* at offsets off .. off + len - 1; a gap between the old end of the file
\* and off reads as zeros; a write of no bytes leaves the file alone.
WriteAt(f, off, bytes) ==
    IF Len(bytes) = 0 THEN f
    ELSE [i \in 1..Max(Len(f), off + Len(bytes)) |->
            IF i > off /\ i <= off + Len(bytes) THEN bytes[i - off]
            ELSE IF i <= Len(f) THEN f[i]
            ELSE 0]

\* read_exact of page_size bytes at p * page_size succeeds only if all of
\* them lie inside the file (a short read is an UnexpectedEof error).
CanRead(f, p) == p * page_size + page_size <= Len(f)

ReadAt(f, p) == SubSeq(f, p * page_size + 1, p * page_size + page_size)

\* --------------------------------------------------------- call outcomes
\* An outcome of a call: the pool and the file it leaves, the DBResult
\* ("Ok" or the error), the bytes it returns, and the I/O call that failed
\* ("none"; "flush": seek or write_all of flush_page; "read": seek or
\* read_exact failing on a readable range; "eof": read_exact past the end of
\* the file; "sync": sync_all) with the page it was made for, and the
\* number of times the body of an eviction loop was run in the call.
NoPage == 0 - 1

Out(pool, f, err, io, io_page) ==
    [pool |-> pool, file |-> f, err |-> err, data |-> <<>>,
     io |-> io, io_page |-> io_page, iters |-> 0]

Good(pool, f) == Out(pool, f, "Ok", "none", NoPage)

\* The outcome o reached after k runs of the body of an eviction loop.
After(k, o) == [o EXCEPT !.iters = @ + k]

Injected == {"flush", "read", "sync"}

\* ------------------------------------------------------------ flush_page
\* Mutant of flush_page: the dirty flag is cleared before the write.
flush_page_early_clear(pool, f, page_id) ==
    IF page_id \in DOMAIN pool /\ pool[page_id].dirty
    THEN {Good([pool EXCEPT ![page_id].dirty = FALSE],
               WriteAt(f, page_id * page_size, pool[page_id].data))}
         \cup
         {Out([pool EXCEPT ![page_id].dirty = FALSE],
              WriteAt(f, page_id * page_size, SubSeq(pool[page_id].data, 1, k)),
              "IOError", "flush", page_id) : k \in 0..(page_size - 1)}
    ELSE {Good(pool, f)}

\* Mutant of flush_page: a resident page is written whether dirty or not.
flush_page_no_dirty_check(pool, f, page_id) ==
    IF page_id \in DOMAIN pool
    THEN {Good([pool EXCEPT ![page_id].dirty = FALSE],
               WriteAt(f, page_id * page_size, pool[page_id].data))}
         \cup
         {Out(pool,
              WriteAt(f, page_id * page_size, SubSeq(pool[page_id].data, 1, k)),
              "IOError", "flush", page_id) : k \in 0..(page_size - 1)}
    ELSE {Good(pool, f)}

\* flush_page: a resident dirty page is written at page_id * page_size and
\* its dirty flag cleared after write_all returned Ok.  When seek fails
\* nothing is written (k = 0); when write_all fails the first k < page_size
\* bytes may have reached the file; either way `?` returns before
\* `page.dirty = false`.
flush_page(pool, f, page_id) ==
    IF page_id \in DOMAIN pool /\ pool[page_id].dirty
    THEN {Good([pool EXCEPT ![page_id].dirty = FALSE],
               WriteAt(f, page_id * page_size, pool[page_id].data))}
         \cup
         {Out(pool,
              WriteAt(f, page_id * page_size, SubSeq(pool[page_id].data, 1, k)),
              "IOError", "flush", page_id) : k \in 0..(page_size - 1)}
    ELSE {Good(pool, f)}

\* ------------------------------------------------------------ evict_page
\* Mutant of Evictable: the pin count is not looked at.
Evictable_any(pool) == DOMAIN pool

\* The pages evict_page may pick: `find` returns the first page with
\* pin_count == 0 in the HashMap's iteration order, which is arbitrary.
Evictable(pool) == {p \in DOMAIN pool : pool[p].pin_count = 0}

\* Mutant of evict_page: a dirty page is removed without being flushed.
evict_page_no_flush(pool, f) ==
    IF Evictable(pool) = {}
    THEN {Out(pool, f, "BufferPoolFull", "none", NoPage)}
    ELSE {Good(Remove(pool, p), f) : p \in Evictable(pool)}

\* Mutant of evict_page: the page is removed although its flush failed.
evict_page_ignore_err(pool, f) ==
    IF Evictable(pool) = {}
    THEN {Out(pool, f, "BufferPoolFull", "none", NoPage)}
    ELSE UNION {
           IF pool[p].dirty
           THEN {[o EXCEPT !.pool = Remove(o.pool, p)]
                 : o \in flush_page(pool, f, p)}
           ELSE {Good(Remove(pool, p), f)}
           : p \in Evictable(pool)}

\* Mutant of evict_page: with every page pinned, a pinned page is evicted.
evict_page_pinned(pool, f) ==
    UNION {
      IF pool[p].dirty
      THEN {IF o.err = "Ok" THEN [o EXCEPT !.pool = Remove(o.pool, p)]
                            ELSE o : o \in flush_page(pool, f, p)}
      ELSE {Good(Remove(pool, p), f)}
      : p \in (IF Evictable(pool) = {} THEN DOMAIN pool ELSE Evictable(pool))}

\* Mutant of evict_page: a call that flushes a dirty page does not remove
\* it, so that a dirty page takes two calls to leave the pool.
evict_page_flush_only(pool, f) ==
    IF Evictable(pool) = {}
    THEN {Out(pool, f, "BufferPoolFull", "none", NoPage)}
    ELSE UNION {
           IF pool[p].dirty
           THEN flush_page(pool, f, p)
           ELSE {Good(Remove(pool, p), f)}
           : p \in Evictable(pool)}

\* evict_page: flush the chosen page if it is dirty (`?` returns the flush
\* error before the removal), then remove it; BufferPoolFull when every
\* resident page is pinned.
evict_page(pool, f) ==
    IF Evictable(pool) = {}
    THEN {Out(pool, f, "BufferPoolFull", "none", NoPage)}
    ELSE UNION {
           IF pool[p].dirty
           THEN {IF o.err = "Ok" THEN [o EXCEPT !.pool = Remove(o.pool, p)]
                                 ELSE o : o \in flush_page(pool, f, p)}
           ELSE {Good(Remove(pool, p), f)}
           : p \in Evictable(pool)}

\* Mutant of make_room: no page is evicted before the insertion.
make_room_never(pool, f) == {Good(pool, f)}

\* while self.buffer_pool.len() >= self.max_pages_in_pool { evict_page()? }
\* (read_page and write_page_to_pool)
RECURSIVE make_room(_, _)
make_room(pool, f) ==
    IF Cardinality(DOMAIN pool) >= max_pages_in_pool
    THEN UNION {IF o.err = "Ok"
                THEN {After(1, r) : r \in make_room(o.pool, o.file)}
                ELSE {After(1, o)}
                : o \in evict_page(pool, f)}
    ELSE {Good(pool, f)}

\* ------------------------------------------------------------- read_page
\* The disk read of read_page and the insertion of the page it read.
load_page(pool, f, page_id) ==
    IF CanRead(f, page_id)
    THEN {[Good(Insert(pool, page_id, Page(ReadAt(f, page_id), FALSE, 0)), f)
             EXCEPT !.data = ReadAt(f, page_id)],
          Out(pool, f, "IOError", "read", page_id)}
    ELSE {Out(pool, f, "IOError", "eof", page_id)}

\* read_page: a resident page is returned as it is; otherwise room is made,
\* the page is read from the file and inserted clean and unpinned.
read_page(pool, f, page_id) ==
    IF page_id \in DOMAIN pool
    THEN {[Good(pool, f) EXCEPT !.data = pool[page_id].data]}
    ELSE UNION {IF o.err = "Ok"
                THEN {After(o.iters, r) : r \in load_page(o.pool, o.file, page_id)}
                ELSE {o}
                : o \in make_room(pool, f)}

\* ---------------------------------------------------- write_page_to_pool
\* Mutant of overwrite: the dirty flag is not set.
overwrite_keep_flag(pool, page_id, data) ==
    [pool EXCEPT ![page_id].data = data]

\* The copy of `data` into the page and the setting of its dirty flag.
overwrite(pool, page_id, data) ==
    [pool EXCEPT ![page_id].data = data, ![page_id].dirty = TRUE]

\* Mutant of write_page_to_pool: the length of the data is checked after
\* room was made and the page inserted.
write_page_to_pool_late_check(pool, f, page_id, data) ==
    IF page_id \in DOMAIN pool
    THEN IF Len(data) # page_size
         THEN {Out(pool, f, "InvalidArgument", "none", NoPage)}
         ELSE {Good(overwrite(pool, page_id, data), f)}
    ELSE {IF o.err # "Ok" THEN o
          ELSE IF Len(data) # page_size
          THEN After(o.iters,
                     Out(Insert(o.pool, page_id, Page(Zeros, FALSE, 0)), o.file,
                         "InvalidArgument", "none", NoPage))
          ELSE After(o.iters,
                     Good(overwrite(Insert(o.pool, page_id, Page(Zeros, FALSE, 0)),
                                    page_id, data), o.file))
          : o \in make_room(pool, f)}

\* Mutant of write_page_to_pool: a page that is not resident is inserted
\* without room being made for it.
write_page_to_pool_no_room(pool, f, page_id, data) ==
    IF Len(data) # page_size
    THEN {Out(pool, f, "InvalidArgument", "none", NoPage)}
    ELSE IF page_id \in DOMAIN pool
    THEN {Good(overwrite(pool, page_id, data), f)}
    ELSE {Good(overwrite(Insert(pool, page_id, Page(Zeros, FALSE, 0)),
                         page_id, data), f)}

\* write_page_to_pool: data of the wrong length is rejected first; a page
\* that is not resident is inserted zero-filled after room was made; then
\* the page is overwritten and marked dirty.
write_page_to_pool(pool, f, page_id, data) ==
    IF Len(data) # page_size
    THEN {Out(pool, f, "InvalidArgument", "none", NoPage)}
    ELSE IF page_id \in DOMAIN pool
    THEN {Good(overwrite(pool, page_id, data), f)}
    ELSE {IF o.err = "Ok"
          THEN After(o.iters,
                     Good(overwrite(Insert(o.pool, page_id, Page(Zeros, FALSE, 0)),
                                    page_id, data), o.file))
          ELSE o : o \in make_room(pool, f)}

\* --------------------------------------------------------- allocate_page
\* Mutant of alloc_evict: the loop tests the size of the pool, as the loops
\* of read_page and write_page_to_pool do.
alloc_evict_pool_len(pool, f, n) == make_room(pool, f)

\* while self.num_pages >= (self.max_pages_in_pool as u64) { evict_page()? }
\* The condition does not change in the loop: once entered, the loop ends
\* only by the error of an evict_page.
RECURSIVE alloc_evict(_, _, _)
alloc_evict(pool, f, n) ==
    IF n >= max_pages_in_pool
    THEN UNION {IF o.err = "Ok"
                THEN {After(1, r) : r \in alloc_evict(o.pool, o.file, n)}
                ELSE {After(1, o)}
                : o \in evict_page(pool, f)}
    ELSE {Good(pool, f)}

\* Mutant of allocate_page: num_pages is not increased.
allocate_page_no_incr(pool, f, n) ==
    {[pool |-> w.pool, file |-> w.file, err |-> w.err,
      io |-> w.io, io_page |-> w.io_page, iters |-> w.iters,
      n |-> n, id |-> IF w.err = "Ok" THEN n + 1 ELSE NoPage]
     : w \in write_page_to_pool(pool, f, n + 1, Zeros)}

\* allocate_page: the outcomes carry the new num_pages in `n` and the id
\* returned in `id` (NoPage on an error); `iters` counts the runs of its
\* own loop and of the loop of write_page_to_pool.
allocate_page(pool, f, n) ==
    UNION {IF o.err = "Ok"
           THEN {IF w.err = "Ok"
                 THEN [pool |-> w.pool, file |-> w.file, err |-> "Ok",
                       io |-> w.io, io_page |-> w.io_page,
                       iters |-> o.iters + w.iters,
                       n |-> n + 1, id |-> n + 1]
                 ELSE [pool |-> w.pool, file |-> w.file, err |-> w.err,
                       io |-> w.io, io_page |-> w.io_page,
                       iters |-> o.iters + w.iters,
                       n |-> n, id |-> NoPage]
                 : w \in write_page_to_pool(o.pool, o.file, n + 1, Zeros)}
           ELSE {[pool |-> o.pool, file |-> o.file, err |-> o.err,
                  io |-> o.io, io_page |-> o.io_page, iters |-> o.iters,
                  n |-> n, id |-> NoPage]}
           : o \in alloc_evict(pool, f, n)}

\* -------------------------------------------------- pin_page, unpin_page
\* page.pin_count += 1
pin(pool, page_id) == [pool EXCEPT ![page_id].pin_count = @ + 1]

\* pin_page: a resident page is pinned; otherwise it is loaded by read_page
\* and pinned (read_page returning Ok leaves the page resident, so the
\* UnknownPage branch is taken only if it does not).
pin_page(pool, f, page_id) ==
    IF page_id \in DOMAIN pool
    THEN {Good(pin(pool, page_id), f)}
    ELSE {IF o.err # "Ok" THEN [o EXCEPT !.data = <<>>]
          ELSE IF page_id \in DOMAIN o.pool
          THEN After(o.iters, Good(pin(o.pool, page_id), o.file))
          ELSE After(o.iters, Out(o.pool, o.file, "UnknownPage", "none", NoPage))
          : o \in read_page(pool, f, page_id)}

\* Mutant of unpin_page: the count is decremented without the test that it
\* is positive.
unpin_page_unchecked(pool, page_id) ==
    IF page_id \in DOMAIN pool
    THEN [pool EXCEPT ![page_id].pin_count = @ - 1]
    ELSE pool

\* unpin_page: Some(count after the decrement) or None; the pool it leaves.
unpin_page(pool, page_id) ==
    IF page_id \in DOMAIN pool
    THEN IF pool[page_id].pin_count > 0
         THEN [pool EXCEPT ![page_id].pin_count = @ - 1]
         ELSE pool
    ELSE pool

\* ------------------------------------------------------- flush_all_pages
\* for page_id in page_ids { self.flush_page(page_id)?; } over the keys
\* `todo` not flushed yet, in the HashMap's arbitrary order, and then
\* self.file.sync_all()?.
RECURSIVE flush_rest(_, _, _)
flush_rest(pool, f, todo) ==
    IF todo = {}
    THEN {Good(pool, f), Out(pool, f, "IOError", "sync", NoPage)}
    ELSE UNION {UNION {IF o.err = "Ok"
                       THEN flush_rest(o.pool, o.file, todo \ {p})
                       ELSE {o}
                       : o \in flush_page(pool, f, p)}
                : p \in todo}

\* Mutant of flush_all_pages: the error of a flush_page or of sync_all is
\* dropped and Ok returned.
flush_all_pages_ignore_err(pool, f) ==
    {[o EXCEPT !.err = "Ok"] : o \in flush_rest(pool, f, DOMAIN pool)}

flush_all_pages(pool, f) == flush_rest(pool, f, DOMAIN pool)

\* ------------------------------------------------------------------ Drop
\* Mutant of drop: the pool is discarded without a flush.
drop_no_flush(pool, f) == {Good(pool, f)}

\* impl Drop: flush_all_pages is attempted; its error is printed, not
\* returned.
drop(pool, f) == flush_all_pages(pool, f)

\* ------------------------------------------------------ FileManager::new
\* The path arguments: the empty path and the path of the database file.
DbPath == "fm_test.db"
Paths == {"", DbPath}

NewOut(err, opened, n) == [err |-> err, opened |-> opened, num_pages |-> n]

\* Mutant of new: the file is opened before the arguments are checked.
new_open_first(path, ps, mp, f) ==
    IF path = "" \/ ps < 1 \/ mp < 1
    THEN {NewOut("InvalidArgument", TRUE, 0)}
    ELSE {NewOut("Ok", TRUE, Len(f) \div ps), NewOut("IOError", TRUE, 0)}

\* FileManager::new on a file of content f: the three argument checks, in
\* the order of the source, each returning InvalidArgument; only then
\* OpenOptions::open (`opened`), which may fail as may metadata(), and
\* num_pages = file length / page_size.
new(path, ps, mp, f) ==
    IF path = "" THEN {NewOut("InvalidArgument", FALSE, 0)}
    ELSE IF ps < 1 THEN {NewOut("InvalidArgument", FALSE, 0)}
    ELSE IF mp < 1 THEN {NewOut("InvalidArgument", FALSE, 0)}
    ELSE {NewOut("Ok", TRUE, Len(f) \div ps), NewOut("IOError", TRUE, 0)}

\* let num_pages = file.metadata()?.len() / (page_size as u64);
new_num_pages(f) == Len(f) \div page_size

\* ------------------------------------------------------------ the machine
\* The buffers a caller may pass to write_page: of the right length, one
\* byte shorter and one byte longer.
DataArgs ==
    PageData \cup {[i \in 1..n |-> 0] : n \in {page_size - 1, page_size + 1}}

NoWrites == [q \in {} |-> Zeros]

\* The call that returned last: its name and page_id argument, its DBResult,
\* the bytes (read_page) or number (allocate_page: the id; unpin_page: the
\* count, NoPage for None) it returned, the I/O call that failed in it, the
\* pages that were resident before it and are not after it, the length of
\* the data passed to it (write_page; NoPage otherwise), for
\* FileManager::new its arguments and whether it opened the file, and the
\* number of runs of the body of an eviction loop in it.
Ret(op, page_id, err, data, val, io, io_page, evicted) ==
    [op |-> op, page_id |-> page_id, err |-> err, data |-> data, val |-> val,
     io |-> io, io_page |-> io_page, evicted |-> evicted, len |-> NoPage,
     args |-> <<>>, opened |-> FALSE, iters |-> 0]

\* The history of accepted writes is kept for the runs in which no I/O call
\* was made to fail.
Record(failed, w) == IF failed THEN NoWrites ELSE w

\* No result is held by the caller: the next call can be made.  (The slice
\* read_page returns borrows the manager, so the caller has to let go of it
\* before the next call.)
NoRet == Ret("none", NoPage, "Ok", <<>>, NoPage, "none", NoPage, {})

Idle == ret = NoRet

\* A manager constructed by FileManager::new on a file that did not exist.
Init ==
    /\ buffer_pool = EmptyPool
    /\ file = <<>>
    /\ num_pages = 0
    /\ allocated = {}
    /\ ret = [Ret("new", NoPage, "Ok", <<>>, NoPage, "none", NoPage, {})
                EXCEPT !.args = <<DbPath, page_size, max_pages_in_pool>>,
                       !.opened = TRUE]
    /\ written = NoWrites
    /\ io_failed = FALSE

ReadPage ==
    /\ Idle
    /\ \E page_id \in PageIds : \E o \in read_page(buffer_pool, file, page_id) :
           /\ buffer_pool' = o.pool
           /\ file' = o.file
           /\ ret' = [Ret("read_page", page_id, o.err, o.data, NoPage, o.io, o.io_page,
                          (DOMAIN buffer_pool) \ (DOMAIN o.pool))
                        EXCEPT !.iters = o.iters]
           /\ io_failed' = (io_failed \/ o.io \in Injected)
           /\ written' = Record(io_failed', written)
           /\ UNCHANGED <<num_pages, allocated>>

WritePage ==
    /\ Idle
    /\ \E page_id \in PageIds : \E data \in DataArgs :
       \E o \in write_page_to_pool(buffer_pool, file, page_id, data) :
           /\ buffer_pool' = o.pool
           /\ file' = o.file
           /\ ret' = [Ret("write_page", page_id, o.err, <<>>, NoPage, o.io, o.io_page,
                          (DOMAIN buffer_pool) \ (DOMAIN o.pool))
                        EXCEPT !.len = Len(data), !.iters = o.iters]
           /\ io_failed' = (io_failed \/ o.io \in Injected)
           /\ written' = Record(io_failed',
                                IF o.err = "Ok"
                                THEN [q \in (DOMAIN written) \cup {page_id} |->
                                        IF q = page_id THEN data ELSE written[q]]
                                ELSE written)
           /\ UNCHANGED <<num_pages, allocated>>

AllocatePage ==
    /\ Idle
    /\ \E o \in allocate_page(buffer_pool, file, num_pages) :
           /\ o.id <= MaxPage + 1
           /\ buffer_pool' = o.pool
           /\ file' = o.file
           /\ num_pages' = o.n
           /\ allocated' = IF o.err = "Ok" THEN allocated \cup {o.id} ELSE allocated
           /\ ret' = [Ret("allocate_page", NoPage, o.err, <<>>, o.id, o.io, o.io_page,
                          (DOMAIN buffer_pool) \ (DOMAIN o.pool))
                        EXCEPT !.iters = o.iters]
           /\ io_failed' = (io_failed \/ o.io \in Injected)
           /\ written' = Record(io_failed',
                                IF o.err = "Ok"
                                THEN [q \in (DOMAIN written) \cup {o.id} |->
                                        IF q = o.id THEN Zeros ELSE written[q]]
                                ELSE written)

PinPage ==
    /\ Idle
    /\ \E page_id \in PageIds : \E o \in pin_page(buffer_pool, file, page_id) :
           /\ \A q \in DOMAIN o.pool : o.pool[q].pin_count <= MaxPin
           /\ buffer_pool' = o.pool
           /\ file' = o.file
           /\ ret' = [Ret("pin_page", page_id, o.err, <<>>, NoPage, o.io, o.io_page,
                          (DOMAIN buffer_pool) \ (DOMAIN o.pool))
                        EXCEPT !.iters = o.iters]
           /\ io_failed' = (io_failed \/ o.io \in Injected)
           /\ written' = Record(io_failed', written)
           /\ UNCHANGED <<num_pages, allocated>>

UnpinPage ==
    /\ Idle
    /\ \E page_id \in PageIds :
           /\ buffer_pool' = unpin_page(buffer_pool, page_id)
           /\ ret' = Ret("unpin_page", page_id, "Ok", <<>>,
                         IF page_id \in DOMAIN buffer_pool
                         THEN buffer_pool'[page_id].pin_count ELSE NoPage,
                         "none", NoPage, {})
           /\ UNCHANGED <<file, num_pages, allocated, written, io_failed>>

FlushPage ==
    /\ Idle
    /\ \E page_id \in PageIds : \E o \in flush_page(buffer_pool, file, page_id) :
           /\ buffer_pool' = o.pool
           /\ file' = o.file
           /\ ret' = Ret("flush_page", page_id, o.err, <<>>, NoPage, o.io, o.io_page,
                         (DOMAIN buffer_pool) \ (DOMAIN o.pool))
           /\ io_failed' = (io_failed \/ o.io \in Injected)
           /\ written' = Record(io_failed', written)
           /\ UNCHANGED <<num_pages, allocated>>

FlushAllPages ==
    /\ Idle
    /\ \E o \in flush_all_pages(buffer_pool, file) :
           /\ buffer_pool' = o.pool
           /\ file' = o.file
           /\ ret' = Ret("flush_all_pages", NoPage, o.err, <<>>, NoPage, o.io, o.io_page,
                         (DOMAIN buffer_pool) \ (DOMAIN o.pool))
           /\ io_failed' = (io_failed \/ o.io \in Injected)
           /\ written' = Record(io_failed', written)
           /\ UNCHANGED <<num_pages, allocated>>

\* The manager is dropped (Drop attempts flush_all_pages and only prints its
\* error) and FileManager::new opens the same file with the same page_size
\* and max_pages_in_pool.
Reopen ==
    /\ Idle
    /\ \E o \in drop(buffer_pool, file) :
           /\ buffer_pool' = EmptyPool
           /\ file' = o.file
           /\ num_pages' = new_num_pages(o.file)
           /\ allocated' = {}
           /\ ret' = [Ret("new", NoPage, "Ok", <<>>, NoPage, o.io, o.io_page,
                          DOMAIN buffer_pool)
                        EXCEPT !.args = <<DbPath, page_size, max_pages_in_pool>>,
                               !.opened = TRUE]
           /\ io_failed' = (io_failed \/ o.io \in Injected)
           /\ written' = Record(io_failed', written)

\* A call of FileManager::new that returns an error (an argument is
\* invalid, or the file cannot be opened): no manager is constructed and
\* the manager in use is not touched.
NewFails ==
    /\ Idle
    /\ \E path \in Paths : \E ps \in {0, page_size} :
       \E mp \in {0, max_pages_in_pool} : \E o \in new(path, ps, mp, file) :
           /\ o.err # "Ok"
           /\ ret' = [Ret("new", NoPage, o.err, <<>>, NoPage, "none", NoPage, {})
                        EXCEPT !.args = <<path, ps, mp>>, !.opened = o.opened]
           /\ UNCHANGED <<buffer_pool, file, num_pages, allocated, written,
                          io_failed>>

\* The caller takes the result of the call and lets go of it.
Return ==
    /\ ~Idle
    /\ ret' = NoRet
    /\ UNCHANGED <<buffer_pool, file, num_pages, allocated, written, io_failed>>

Next ==
    \/ ReadPage
    \/ WritePage
    \/ AllocatePage
    \/ PinPage
    \/ UnpinPage
    \/ FlushPage
    \/ FlushAllPages
    \/ Reopen
    \/ NewFails
    \/ Return

Spec == Init /\ [][Next]_vars

\* ================================================================ claims
\* The pool is full and every resident page is pinned.
PoolFullAllPinned ==
    /\ Cardinality(DOMAIN buffer_pool) >= max_pages_in_pool
    /\ \A p \in DOMAIN buffer_pool : buffer_pool[p].pin_count > 0

\* The calls that load a page that is not resident.
Loaders == {"read_page", "write_page", "pin_page"}

\* C1: in a run in which no I/O call was made to fail, a read_page of a page
\* that this program wrote (write_page, or the zero fill of the
\* allocate_page that returned its id) does not fail with an I/O error and,
\* when it returns Ok, returns the bytes of the last such write.
C1_ReadReturnsLastWrite ==
    (ret.op = "read_page" /\ ~io_failed /\ ret.page_id \in DOMAIN written)
        => /\ ret.err \in {"Ok", "BufferPoolFull"}
           /\ (ret.err = "Ok" => ret.data = written[ret.page_id])

\* C1 witness: a read_page returned the non-zero bytes written to a page
\* that is clean in the pool (it was flushed, or evicted and read back),
\* after more pages were written than the pool holds.
C1_Witness ==
    /\ ret.op = "read_page" /\ ret.err = "Ok" /\ ~io_failed
    /\ ret.page_id \in DOMAIN written
    /\ ret.data # Zeros
    /\ ret.data = written[ret.page_id]
    /\ ~buffer_pool[ret.page_id].dirty
    /\ ret.evicted # {}
    /\ Cardinality(DOMAIN written) > max_pages_in_pool

\* C2: read_page, write_page, allocate_page, pin_page, unpin_page,
\* flush_page and flush_all_pages leave resident every page that was
\* resident with pin_count > 0 before the call.
C2_PinnedStaysResident ==
    [][ret'.op # "new" =>
         \A p \in DOMAIN buffer_pool :
             buffer_pool[p].pin_count > 0 => p \in DOMAIN buffer_pool']_vars

\* C2 witness: a read_page that had to evict returned Ok with a pinned page
\* still resident next to the page it loaded.
C2_Witness ==
    /\ ret.op = "read_page" /\ ret.err = "Ok" /\ ret.evicted # {}
    /\ \E p \in DOMAIN buffer_pool :
           p # ret.page_id /\ buffer_pool[p].pin_count > 0

\* C3: after every call the pool holds at most max_pages_in_pool pages.
C3_PoolBounded == Cardinality(DOMAIN buffer_pool) <= max_pages_in_pool

\* C3 witness: a call that had to evict a page returned with the pool full.
C3_Witness ==
    /\ ret.op \in Loaders /\ ret.err = "Ok" /\ ret.evicted # {}
    /\ Cardinality(DOMAIN buffer_pool) = max_pages_in_pool

\* C4: a page an operation removed from the pool has its in-pool bytes in
\* the file, and when the flush of an eviction fails the call returns the
\* I/O error and the page is resident as before, still dirty.
C4_EvictionKeepsData ==
    [][/\ ret'.op # "new" =>
            \A p \in ret'.evicted :
                CanRead(file', p) /\ ReadAt(file', p) = buffer_pool[p].data
       /\ (ret'.io = "flush" /\ ret'.op \in Loaders \cup {"allocate_page"}) =>
            /\ ret'.err = "IOError"
            /\ ret'.io_page \in DOMAIN buffer_pool
            /\ ret'.io_page \in DOMAIN buffer_pool'
            /\ buffer_pool'[ret'.io_page] = buffer_pool[ret'.io_page]
            /\ buffer_pool'[ret'.io_page].dirty]_vars

\* C4 witness: a read_page returned the I/O error of the flush of the dirty
\* page it tried to evict, and that page is resident and dirty.
C4_Witness ==
    /\ ret.op = "read_page" /\ ret.io = "flush" /\ ret.err = "IOError"
    /\ ret.io_page \in DOMAIN buffer_pool
    /\ buffer_pool[ret.io_page].dirty
    /\ buffer_pool[ret.io_page].data # Zeros

\* C5: an allocate_page that returns an error leaves the pool, the file and
\* num_pages as they were before the call.
C5_AllocateErrorLeavesState ==
    [][(ret'.op = "allocate_page" /\ ret'.err # "Ok") =>
           UNCHANGED <<buffer_pool, file, num_pages>>]_vars

\* C6: num_pages never decreases on a manager, and an allocate_page that
\* returns Ok returns the previous num_pages + 1, which is the new
\* num_pages and is greater than every id returned before on this manager.
C6_AllocationMonotonic ==
    [][/\ ret'.op # "new" => num_pages' >= num_pages
       /\ (ret'.op = "allocate_page" /\ ret'.err = "Ok") =>
            /\ ret'.val = num_pages + 1
            /\ num_pages' = ret'.val
            /\ \A i \in allocated : i < ret'.val
       /\ (ret'.op = "allocate_page" /\ ret'.err # "Ok") =>
            num_pages' = num_pages]_vars

\* C6 witness: the second successful allocate_page of a manager returned,
\* after a call in between failed.
C6_Witness ==
    /\ ret.op = "allocate_page" /\ ret.err = "Ok"
    /\ Cardinality(allocated) >= 2
    /\ io_failed

\* C7: flush_page of a resident dirty page either returns Ok with the
\* page's bytes in the file at page_id * page_size and the page clean, or
\* returns the I/O error with the page unchanged and still dirty, so that a
\* flush_page made next can write the bytes; the in-pool bytes never change.
C7_FlushClearsDirtyAfterWrite ==
    [][(/\ ret'.op = "flush_page"
        /\ ret'.page_id \in DOMAIN buffer_pool
        /\ buffer_pool[ret'.page_id].dirty) =>
          /\ DOMAIN buffer_pool' = DOMAIN buffer_pool
          /\ buffer_pool'[ret'.page_id].data = buffer_pool[ret'.page_id].data
          /\ ret'.err = "Ok" =>
                /\ ~buffer_pool'[ret'.page_id].dirty
                /\ CanRead(file', ret'.page_id)
                /\ ReadAt(file', ret'.page_id) = buffer_pool[ret'.page_id].data
          /\ ret'.err # "Ok" =>
                /\ ret'.err = "IOError"
                /\ buffer_pool' = buffer_pool
                /\ \E o \in flush_page(buffer_pool', file', ret'.page_id) :
                      /\ o.err = "Ok"
                      /\ ReadAt(o.file, ret'.page_id)
                            = buffer_pool[ret'.page_id].data]_vars

\* C7 witness: a flush_page of a dirty page failed and the page is dirty.
C7_Witness ==
    /\ ret.op = "flush_page" /\ ret.err = "IOError" /\ ret.io = "flush"
    /\ ret.page_id \in DOMAIN buffer_pool
    /\ buffer_pool[ret.page_id].dirty
    /\ buffer_pool[ret.page_id].data # Zeros

\* C8: with the pool full and every resident page pinned, read_page,
\* pin_page and write_page (with data of page_size bytes) of a page that is
\* not resident return BufferPoolFull and change neither the pool nor the
\* file nor num_pages.
C8_FullPinnedPoolRefuses ==
    [][(/\ PoolFullAllPinned
        /\ ret'.op \in Loaders
        /\ ret'.page_id \notin DOMAIN buffer_pool
        /\ ret'.op = "write_page" => ret'.len = page_size) =>
          /\ ret'.err = "BufferPoolFull"
          /\ UNCHANGED <<buffer_pool, file, num_pages>>]_vars

\* C8 witness: a pin_page of a page that is not resident returned
\* BufferPoolFull with the pool full of pinned pages.
C8_Witness ==
    /\ ret.op = "pin_page" /\ ret.err = "BufferPoolFull"
    /\ ret.page_id \notin DOMAIN buffer_pool
    /\ PoolFullAllPinned

\* C9: a read_page of a page that is not resident whose disk read fails or
\* is short leaves the pool, the file and num_pages as before the call.
C9_FailedReadLeavesState ==
    [][(ret'.op = "read_page" /\ ret'.io \in {"read", "eof"}) =>
           UNCHANGED <<buffer_pool, file, num_pages>>]_vars

\* C10: in a run in which no I/O call was made to fail, after the manager
\* was dropped and a new one opened on the file, read_page of every page
\* that was written returns Ok with the bytes written last, unless its own
\* disk read is made to fail.
C10_PersistsAcrossReopen ==
    (ret.op = "new" /\ ret.err = "Ok" /\ ~io_failed) =>
        \A p \in DOMAIN written :
            \A o \in read_page(buffer_pool, file, p) :
                o.io \notin Injected => (o.err = "Ok" /\ o.data = written[p])

\* C10 witness: a manager was dropped with a written, non-zero page in its
\* pool and a new one was opened, without any I/O failure.
C10_Witness ==
    /\ ret.op = "new" /\ ret.err = "Ok" /\ ~io_failed
    /\ \E p \in DOMAIN written : written[p] # Zeros /\ p \in ret.evicted

\* C11: a write_page with data of a length other than page_size returns
\* InvalidArgument and changes nothing: no page is evicted or inserted, and
\* a page resident at that id keeps its bytes, dirty flag and pin count.
C11_WrongLengthRejected ==
    [][(ret'.op = "write_page" /\ ret'.len # page_size) =>
          /\ ret'.err = "InvalidArgument"
          /\ ret'.evicted = {}
          /\ UNCHANGED <<buffer_pool, file, num_pages>>]_vars

\* C11 witness: a write_page with data one byte too long on a page that is
\* not resident was rejected with the pool full of unpinned dirty pages.
C11_Witness ==
    /\ ret.op = "write_page" /\ ret.len = page_size + 1
    /\ ret.err = "InvalidArgument"
    /\ ret.page_id \notin DOMAIN buffer_pool
    /\ Cardinality(DOMAIN buffer_pool) = max_pages_in_pool
    /\ \A p \in DOMAIN buffer_pool :
           buffer_pool[p].pin_count = 0 /\ buffer_pool[p].dirty

\* C12: unpin_page never returns an error; on a resident page it returns
\* the count after decrementing it if it was positive (0 stays 0) and
\* changes nothing else; on a page that is not resident it returns None and
\* changes nothing; pin counts are never negative.
C12_UnpinNeverNegative ==
    [][/\ \A p \in DOMAIN buffer_pool' : buffer_pool'[p].pin_count >= 0
       /\ ret'.op = "unpin_page" =>
            /\ ret'.err = "Ok"
            /\ UNCHANGED <<file, num_pages>>
            /\ DOMAIN buffer_pool' = DOMAIN buffer_pool
            /\ \A p \in DOMAIN buffer_pool :
                  /\ buffer_pool'[p].data = buffer_pool[p].data
                  /\ buffer_pool'[p].dirty = buffer_pool[p].dirty
                  /\ p # ret'.page_id =>
                        buffer_pool'[p].pin_count = buffer_pool[p].pin_count
            /\ IF ret'.page_id \in DOMAIN buffer_pool
               THEN /\ ret'.val = buffer_pool'[ret'.page_id].pin_count
                    /\ ret'.val = IF buffer_pool[ret'.page_id].pin_count > 0
                                  THEN buffer_pool[ret'.page_id].pin_count - 1
                                  ELSE 0
               ELSE ret'.val = NoPage /\ buffer_pool' = buffer_pool]_vars

\* C12 witness: an unpin_page of a resident dirty page returned 0.
C12_Witness ==
    /\ ret.op = "unpin_page" /\ ret.val = 0
    /\ ret.page_id \in DOMAIN buffer_pool
    /\ buffer_pool[ret.page_id].dirty
    /\ buffer_pool[ret.page_id].pin_count = 0

\* C13: FileManager::new with an empty path, with page_size 0 or with
\* max_pages_in_pool 0 returns InvalidArgument without having opened (or
\* created) the file, whose content is unchanged.
C13_NewValidatesBeforeOpen ==
    [][(/\ ret'.op = "new"
        /\ \/ ret'.args[1] = ""
           \/ ret'.args[2] = 0
           \/ ret'.args[3] = 0) =>
          /\ ret'.err = "InvalidArgument"
          /\ ~ret'.opened
          /\ UNCHANGED <<buffer_pool, file, num_pages>>]_vars

\* C13 witness: new was called with max_pages_in_pool 0 and otherwise valid
\* arguments on the path of a file that exists with content, and returned
\* InvalidArgument.
C13_Witness ==
    /\ ret.op = "new" /\ ret.err = "InvalidArgument"
    /\ ret.args = <<DbPath, page_size, 0>>
    /\ ~ret.opened
    /\ file # <<>>

\* C14: when a manager that was opened on an empty file and allocated the
\* ids 1..n (no other page was written) is dropped with every flush
\* succeeding and the file is opened again with the same page_size, the new
\* manager's num_pages is n.
C14_ReopenCountsAllocated ==
    [][(/\ ret'.op = "new" /\ ret'.err = "Ok"
        /\ ~io_failed'
        /\ allocated # {}
        /\ allocated = 1..num_pages
        /\ DOMAIN written = allocated) =>
          num_pages' = num_pages]_vars

\* C15: flush_all_pages leaves residency, bytes and pin counts as they
\* were and dirties no page; every page that is clean after it has its
\* bytes in the file; when it returns Ok no resident page is dirty; when it
\* returns an error, that is the I/O error of sync_all (no page is dirty)
\* or of the flush of a page that is still dirty.
C15_FlushAllPartial ==
    [][ret'.op = "flush_all_pages" =>
          /\ DOMAIN buffer_pool' = DOMAIN buffer_pool
          /\ UNCHANGED num_pages
          /\ \A p \in DOMAIN buffer_pool :
                /\ buffer_pool'[p].data = buffer_pool[p].data
                /\ buffer_pool'[p].pin_count = buffer_pool[p].pin_count
                /\ buffer_pool'[p].dirty => buffer_pool[p].dirty
                /\ ~buffer_pool'[p].dirty =>
                      /\ CanRead(file', p)
                      /\ ReadAt(file', p) = buffer_pool[p].data
          /\ ret'.err = "Ok" =>
                \A p \in DOMAIN buffer_pool' : ~buffer_pool'[p].dirty
          /\ ret'.err # "Ok" =>
                /\ ret'.err = "IOError"
                /\ ret'.io \in {"flush", "sync"}
                /\ ret'.io = "sync" =>
                      \A p \in DOMAIN buffer_pool' : ~buffer_pool'[p].dirty
                /\ ret'.io = "flush" =>
                      /\ ret'.io_page \in DOMAIN buffer_pool'
                      /\ buffer_pool'[ret'.io_page].dirty]_vars

\* C15 witness: flush_all_pages aborted on the failed flush of one page
\* with another page, written with non-zero bytes, clean and in the file.
C15_Witness ==
    /\ ret.op = "flush_all_pages" /\ ret.err = "IOError" /\ ret.io = "flush"
    /\ buffer_pool[ret.io_page].dirty
    /\ \E p \in DOMAIN buffer_pool :
          /\ ~buffer_pool[p].dirty
          /\ buffer_pool[p].data # Zeros
          /\ ReadAt(file, p) = buffer_pool[p].data

\* read_page(p)?; write_page(p, data): the write is made only after the
\* read returned Ok.
ReadThenWrite(pool, f, p, data) ==
    UNION {IF r.err = "Ok" THEN write_page_to_pool(r.pool, r.file, p, data)
           ELSE {r} : r \in read_page(pool, f, p)}

\* What a caller sees of a set of outcomes, those in which the disk read of
\* read_page was made to fail left out: the result, the pool and the file.
Seen(outs) ==
    {[err |-> o.err, pool |-> o.pool, file |-> o.file]
     : o \in {x \in outs : x.io # "read"}}

\* C16 as stated: for every page that is not resident, beyond the end of
\* the file or not, write_page(p, data) has the outcomes of read_page(p)
\* followed by write_page(p, data).
C16_Original ==
    \A p \in PageIds \ DOMAIN buffer_pool : \A d \in PageData :
        Seen(write_page_to_pool(buffer_pool, file, p, d))
          = Seen(ReadThenWrite(buffer_pool, file, p, d))

\* C16 amended: for every page that is not resident and lies wholly inside
\* the file, write_page(p, data) has the outcomes (result, pool, file) of
\* read_page(p) followed by write_page(p, data) whose disk read did not
\* fail; an Ok outcome leaves p resident with data, dirty and unpinned.
\* For a page beyond the end of the file and a pool with room, read_page
\* returns IOError and leaves the pool alone while write_page returns Ok.
C16_WriteIsReadThenWrite ==
    \A p \in PageIds \ DOMAIN buffer_pool : \A d \in PageData :
        /\ CanRead(file, p) =>
              Seen(write_page_to_pool(buffer_pool, file, p, d))
                = Seen(ReadThenWrite(buffer_pool, file, p, d))
        /\ \A o \in write_page_to_pool(buffer_pool, file, p, d) :
              o.err = "Ok" =>
                 /\ p \in DOMAIN o.pool
                 /\ o.pool[p] = Page(d, TRUE, 0)
                 /\ Cardinality(DOMAIN o.pool) <= max_pages_in_pool
        /\ (~CanRead(file, p)
            /\ Cardinality(DOMAIN buffer_pool) < max_pages_in_pool) =>
              /\ \A o \in ReadThenWrite(buffer_pool, file, p, d) :
                    o.err = "IOError" /\ o.pool = buffer_pool
              /\ \A o \in write_page_to_pool(buffer_pool, file, p, d) :
                    o.err = "Ok"

\* C16 witness: write_page has just evicted a page to overwrite a page
\* that was not resident and whose earlier, non-zero bytes are in the file;
\* the pool is full and another page in the file is not resident.
C16_Witness ==
    /\ ret.op = "write_page" /\ ret.err = "Ok" /\ ret.evicted # {}
    /\ CanRead(file, ret.page_id)
    /\ ReadAt(file, ret.page_id) # Zeros
    /\ buffer_pool[ret.page_id].data # ReadAt(file, ret.page_id)
    /\ Cardinality(DOMAIN buffer_pool) = max_pages_in_pool
    /\ \E q \in PageIds \ DOMAIN buffer_pool :
          CanRead(file, q) /\ ReadAt(file, q) # Zeros

\* C17: flush_page on an absent page or on a resident page that is not
\* dirty returns Ok without an I/O call and changes neither the pool nor
\* the file; after a flush_page that returned Ok, the only outcome of a
\* second flush_page of the same page is Ok with the pool and the file as
\* the first left them.
C17_FlushIdempotent ==
    [][ret'.op = "flush_page" =>
          /\ (\/ ret'.page_id \notin DOMAIN buffer_pool
              \/ ~buffer_pool[ret'.page_id].dirty) =>
                /\ ret'.err = "Ok" /\ ret'.io = "none"
                /\ UNCHANGED <<buffer_pool, file, num_pages>>
          /\ ret'.err = "Ok" =>
                flush_page(buffer_pool', file', ret'.page_id)
                  = {Good(buffer_pool', file')}]_vars

\* C17 witness: flush_page returned Ok for a resident page that is clean
\* and whose non-zero bytes are in the file.
C17_Witness ==
    /\ ret.op = "flush_page" /\ ret.err = "Ok"
    /\ ret.page_id \in DOMAIN buffer_pool
    /\ ~buffer_pool[ret.page_id].dirty
    /\ buffer_pool[ret.page_id].data # Zeros
    /\ ReadAt(file, ret.page_id) = buffer_pool[ret.page_id].data

C19_CleanPagesMatchDisk ==
    \A p \in DOMAIN buffer_pool :
        ~buffer_pool[p].dirty =>
            /\ CanRead(file, p)
            /\ ReadAt(file, p) = buffer_pool[p].data

\* C19 witness: after a failed flush, a clean page with non-zero bytes is
\* resident next to a dirty page whose bytes are not the file's.
C19_Witness ==
    /\ io_failed
    /\ ret.op = "flush_page" /\ ret.err = "IOError"
    /\ \E p \in DOMAIN buffer_pool :
          ~buffer_pool[p].dirty /\ buffer_pool[p].data # Zeros
    /\ \E q \in DOMAIN buffer_pool :
          /\ buffer_pool[q].dirty
          /\ CanRead(file, q)
          /\ ReadAt(file, q) # buffer_pool[q].data

\* The calls that have an eviction loop.
Evicting == {"read_page", "write_page", "allocate_page", "pin_page"}

\* C20: every call of evict_page returns an error or leaves the pool one
\* page smaller; every call of read_page, write_page, allocate_page and
\* pin_page has an outcome, and has run the body of its eviction loop at
\* most (number of pages resident at the call) + 1 times.
C20_LoopsTerminate ==
    /\ [](Idle =>
            /\ \A o \in evict_page(buffer_pool, file) :
                  \/ o.err # "Ok"
                  \/ Cardinality(DOMAIN o.pool)
                       = Cardinality(DOMAIN buffer_pool) - 1
            /\ allocate_page(buffer_pool, file, num_pages) # {}
            /\ \A p \in PageIds :
                  /\ read_page(buffer_pool, file, p) # {}
                  /\ pin_page(buffer_pool, file, p) # {}
                  /\ \A d \in DataArgs :
                        write_page_to_pool(buffer_pool, file, p, d) # {})
    /\ [][ret'.op \in Evicting =>
            ret'.iters <= Cardinality(DOMAIN buffer_pool) + 1]_vars

\* C20 witness: allocate_page, called with a full pool of unpinned pages,
\* has run its loop once more than there were pages: it evicted each and
\* was then refused.
C20_Witness ==
    /\ ret.op = "allocate_page" /\ ret.err = "BufferPoolFull"
    /\ Cardinality(ret.evicted) = max_pages_in_pool
    /\ ret.iters = max_pages_in_pool + 1
    /\ buffer_pool = EmptyPool

====
